---- MODULE Spec2Model ----
(***************************************************************************)
(* A model of translate/storage/tm_db.py: the translation memory database  *)
(* TMDB over a shared sqlite connection per database file.                 *)
(*                                                                         *)
(* Database semantics the code relies on (sqlite through the Python 2      *)
(* dbapi2 module): an INSERT opens a transaction implicitly; commit() and  *)
(* rollback() end it; executescript() issues a COMMIT before running the   *)
(* script; NULL values are distinct from each other in a UNIQUE index and  *)
(* "column = NULL" is never true; the AUTOINCREMENT counter is part of the *)
(* transaction.                                                            *)
(***************************************************************************)
EXTENDS Naturals, Sequences, FiniteSets, TLC

VARIABLES tm_dbs, disk, conn, objs, res, hist

vars == <<tm_dbs, disk, conn, objs, res, hist>>

-----------------------------------------------------------------------------
(* Bounds of the model                                                     *)

\* largest row id (sid, tid) the AUTOINCREMENT counters may hand out
MaxSid == 2
\* longest source text, in characters
MaxLen == 3

-----------------------------------------------------------------------------
(* Values                                                                  *)

\* Python's None, for a language
None == "None"
\* Python's None, for a text-valued field (unit.target, the context)
NoneText == <<None>>

DbFiles == {"f1", "f2"}
Objs == {"t1", "t2"}

\* the characters of the texts: those of Base are ASCII, NonAscii is not
Base == <<"a", "b", "c", "d", "e">>
NonAscii == "e'"

TargetTexts == {<<"x">>}
Contexts == {<<"c">>, NoneText}

\* a translation unit: what add_unit and add_store read of it
UnitsOver(texts, targets, contexts, slangs, tlangs, flags) ==
    [source : texts, target : targets, context : contexts,
     sourcelanguage : slangs, targetlanguage : tlangs,
     translatable : flags, translated : flags]

\* the units given to add_unit (it does not read the two flags): one source
\* text, with or without a target, a context, a declared source language
StoreText == SubSeq(Base, 1, 2)
Units == UnitsOver({StoreText}, TargetTexts \cup {NoneText}, Contexts,
                   {"en", None}, {None}, {TRUE})

\* the units of the documents given to add_store
StoreUnits == {u \in UnitsOver({StoreText}, TargetTexts, {<<"c">>},
                               {"en", None}, {"fr"}, BOOLEAN) :
                  u.translatable \/ u.translated}

\* the source_lang and target_lang arguments of add_unit and add_store
SourceLangArgs == {"de", None}
TargetLangArgs == {"fr", None}

\* the documents: one or two units
Stores == {<<u>> : u \in StoreUnits} \cup {<<u, v>> : u, v \in StoreUnits}

\* the defaults of TMDB.__init__
DefaultMaxCandidates == 3
DefaultMinSimilarity == 75
DefaultMaxLength == 1000

-----------------------------------------------------------------------------
(* The database                                                            *)

EmptyDb == [schema |-> FALSE, sources |-> {}, targets |-> {}, seq_s |-> 0, seq_t |-> 0]

\* len() of a text held as a unicode string: its number of characters
PyLen(text) == Len(text)

\* CREATE UNIQUE INDEX sources_uniq_idx ON sources (text, context, lang):
\* the rows an INSERT of (text, context, lang) conflicts with. A NULL context
\* conflicts with nothing.
sources_uniq_idx(db, text, context, lang) ==
    {r \in db.sources : r.text = text /\ r.lang = lang
                        /\ context # NoneText /\ r.context = context}

\* the targets table without its unique index
NoTargetIndex(db, sid, text, lang) == {}

\* CREATE UNIQUE INDEX targets_uniq_idx ON targets (sid, text, lang)
targets_uniq_idx(db, sid, text, lang) ==
    {r \in db.targets : r.sid = sid /\ r.text = text /\ r.lang = lang}

\* SELECT sid FROM sources WHERE text=? AND context=? and lang=?
SelectSid(db, text, context, lang) ==
    {r.sid : r \in {s \in db.sources : s.text = text /\ s.lang = lang
                                       /\ context # NoneText /\ s.context # NoneText
                                       /\ s.context = context}}

\* INSERT INTO sources: the row gets the next AUTOINCREMENT sid
InsertSource(db, text, context, lang) ==
    [db EXCEPT !.sources = @ \cup {[sid |-> db.seq_s + 1, text |-> text,
                                    context |-> context, lang |-> lang,
                                    length |-> PyLen(text)]},
               !.seq_s = @ + 1]

\* INSERT INTO targets taking the row id of the wrong table for the sid
SidFromTargets(db, sid, text, lang) ==
    [db EXCEPT !.targets = @ \cup {[tid |-> db.seq_t + 1, sid |-> db.seq_t + 1,
                                    text |-> text, lang |-> lang,
                                    length |-> PyLen(text)]},
               !.seq_t = @ + 1]

\* INSERT INTO targets (the time column is written and never read: left out)
InsertTarget(db, sid, text, lang) ==
    [db EXCEPT !.targets = @ \cup {[tid |-> db.seq_t + 1, sid |-> sid, text |-> text,
                                    lang |-> lang, length |-> PyLen(text)]},
               !.seq_t = @ + 1]

\* connection.commit(): what the connection sees becomes the file's content
Commit(d, c) == [disk |-> c.cur, conn |-> [cur |-> c.cur, intx |-> FALSE]]

\* a rollback that leaves the pending rows where they are
KeepsPending(d, c) == [disk |-> d, conn |-> c]

\* connection.rollback(): the connection is back at the file's content
Rollback(d, c) == [disk |-> d, conn |-> [cur |-> d, intx |-> FALSE]]

-----------------------------------------------------------------------------
(* add_unit                                                                *)

\* the unit's declared language takes precedence over the argument
ResolveLang(declared, argument) == IF declared # None THEN declared ELSE argument

\* The try block of add_unit on the connection state c over file content d.
\* Yields the new file content, connection state and the outcome.
AddUnitTry(d, c, unit, source_lang, target_lang, commit) ==
    LET db0  == c.cur
        hit  == sources_uniq_idx(db0, unit.source, unit.context, source_lang)
        db1  == IF hit = {} THEN InsertSource(db0, unit.source, unit.context, source_lang)
                ELSE db0
        found == SelectSid(db0, unit.source, unit.context, source_lang)
        \* the INSERT, also one that fails on the index, has begun a transaction
        c1   == [cur |-> db1, intx |-> TRUE]
        raise(kind) ==
            IF commit THEN Rollback(d, c1) @@ [outcome |-> kind]
            ELSE [disk |-> d, conn |-> c1, outcome |-> kind]
    IN  IF hit # {} /\ found = {} THEN raise("TypeError")
        ELSE LET sid == IF hit = {} THEN db0.seq_s + 1 ELSE CHOOSE s \in found : TRUE
             IN  IF unit.target = NoneText THEN raise("TypeError")
                 ELSE LET thit == targets_uniq_idx(db1, sid, unit.target, target_lang)
                          db2  == IF thit = {}
                                  THEN InsertTarget(db1, sid, unit.target, target_lang)
                                  ELSE db1
                          c2   == [cur |-> db2, intx |-> TRUE]
                      IN  IF commit THEN Commit(d, c2) @@ [outcome |-> "ok"]
                          ELSE [disk |-> d, conn |-> c2, outcome |-> "ok"]

\* add_unit checking the source language only
SourceLangOnly(d, c, unit, source_lang, target_lang, commit) ==
    LET sl == ResolveLang(unit.sourcelanguage, source_lang)
        tl == ResolveLang(unit.targetlanguage, target_lang)
    IN  IF sl = None
        THEN [disk |-> d, conn |-> c, outcome |-> "LanguageError"]
        ELSE AddUnitTry(d, c, unit, sl, tl, commit)

\* add_unit as a function of the state it runs on
AddUnitCall(d, c, unit, source_lang, target_lang, commit) ==
    LET sl == ResolveLang(unit.sourcelanguage, source_lang)
        tl == ResolveLang(unit.targetlanguage, target_lang)
    IN  IF sl = None \/ tl = None
        THEN [disk |-> d, conn |-> c, outcome |-> "LanguageError"]
        ELSE AddUnitTry(d, c, unit, sl, tl, commit)

\* The loop of add_store from unit i on: add_unit with commit=False for the
\* units that are translatable and translated; an exception of add_unit
\* leaves the loop and add_store.
RECURSIVE AddStoreLoop(_, _, _, _, _, _)
AddStoreLoop(d, c, units, i, source_lang, target_lang) ==
    IF i > Len(units) THEN [disk |-> d, conn |-> c, outcome |-> "ok"]
    ELSE IF units[i].translatable /\ units[i].translated
         THEN LET r == AddUnitCall(d, c, units[i], source_lang, target_lang, FALSE)
              IN  IF r.outcome # "ok" THEN r
                  ELSE AddStoreLoop(r.disk, r.conn, units, i + 1, source_lang, target_lang)
         ELSE AddStoreLoop(d, c, units, i + 1, source_lang, target_lang)

\* add_store committing whether asked to or not
CommitsUnasked(d, c, store, source_lang, target_lang, commit) ==
    LET r == AddStoreLoop(d, c, store, 1, source_lang, target_lang)
    IN  IF r.outcome = "ok" THEN Commit(r.disk, r.conn) @@ [outcome |-> "ok"]
        ELSE r

AddStoreCall(d, c, store, source_lang, target_lang, commit) ==
    LET r == AddStoreLoop(d, c, store, 1, source_lang, target_lang)
    IN  IF r.outcome = "ok" /\ commit THEN Commit(r.disk, r.conn) @@ [outcome |-> "ok"]
        ELSE r

\* init_database discarding what is pending before it runs its script
RollsBackFirst(d, c) ==
    LET c1 == Rollback(d, c).conn
        c2 == [c1 EXCEPT !.cur.schema = TRUE]
    IN  Commit(c1.cur, c2)

\* init_database on the connection: executescript commits what is pending,
\* creates what is missing of the schema, and commit() follows.
InitDatabaseCall(d, c) ==
    LET c1 == Commit(d, c).conn
        c2 == [c1 EXCEPT !.cur.schema = TRUE]
    IN  Commit(c1.cur, c2)

-----------------------------------------------------------------------------
(* translate_unit                                                          *)

Max(a, b) == IF a >= b THEN a ELSE b
Min(a, b) == IF a <= b THEN a ELSE b

\* the UTF-8 bytes of a character: one byte for ASCII, two for the other
Utf8(ch) == IF ch = NonAscii THEN <<"C3", "A9">> ELSE <<ch>>

\* text.encode("utf-8")
RECURSIVE Encode(_)
Encode(text) == IF text = <<>> THEN <<>> ELSE Utf8(Head(text)) \o Encode(Tail(text))

\* ','.join(tags)
RECURSIVE Join(_)
Join(tags) ==
    IF tags = <<>> THEN ""
    ELSE IF Len(tags) = 1 THEN tags[1]
    ELSE tags[1] \o "," \o Join(Tail(tags))

\* a language argument of translate_unit: one tag, or a list of tags
Tag(t) == [islist |-> FALSE, tags |-> <<t>>]
List(ts) == [islist |-> TRUE, tags |-> ts]

\* the value bound to the query's parameter: a list is joined, a tag is kept
BoundLangs(arg) == IF arg.islist THEN Join(arg.tags) ELSE arg.tags[1]

\* math.ceil(max(length * (min_similarity/100.0), 2)); the float product is
\* exact for the similarities of the model
min_levenshtein_length(length, min_similarity) ==
    Max((length * min_similarity + 99) \div 100, 2)

\* math.floor(min(length / (min_similarity/100.0), max_length)), for
\* min_similarity > 0
max_levenshtein_length(length, min_similarity, max_length) ==
    Min((length * 100) \div min_similarity, max_length)

\* the edit distance of two byte strings
RECURSIVE Levenshtein(_, _)
Levenshtein(a, b) ==
    IF a = <<>> THEN Len(b)
    ELSE IF b = <<>> THEN Len(a)
    ELSE IF Head(a) = Head(b) THEN Levenshtein(Tail(a), Tail(b))
    ELSE 1 + Min(Levenshtein(Tail(a), Tail(b)),
                 Min(Levenshtein(Tail(a), b), Levenshtein(a, Tail(b))))

\* LevenshteinComparer.similarity: the edit distance normalised by the longer
\* length, as a score 0..100 (rounded down to a whole number)
similarity(a, b, min_similarity) ==
    IF a = <<>> \/ b = <<>> THEN 0
    ELSE (100 * (Max(Len(a), Len(b)) - Levenshtein(a, b))) \div Max(Len(a), Len(b))

\* The SELECT of translate_unit: the joined source/target rows with s.lang and
\* t.lang equal to the bound values and s.length in the window
SelectRows(db, source_langs, target_langs, minlen, maxlen) ==
    {[s |-> s, t |-> t] : s \in {x \in db.sources : /\ x.lang = source_langs
                                                    /\ x.length >= minlen
                                                    /\ x.length <= maxlen},
                          t \in {y \in db.targets : y.lang = target_langs}}

JoinedRows(db, source_langs, target_langs, minlen, maxlen) ==
    {r \in SelectRows(db, source_langs, target_langs, minlen, maxlen) : r.s.sid = r.t.sid}

\* the orders in which the cursor may yield a set of rows
Orders(rows) ==
    {f \in [1..Cardinality(rows) -> rows] : \A i, j \in DOMAIN f : i # j => f[i] # f[j]}

\* every scored row is kept
KeepsAll(quality, min_similarity) == TRUE

\* whether a result is kept
Qualifies(quality, min_similarity) == quality >= min_similarity

\* The loop over the cursor, from row i on. A row with a NULL context makes
\* row[2].encode fail with AttributeError.
RECURSIVE ScanRows(_, _, _, _, _)
ScanRows(rows, i, unit_source, min_similarity, results) ==
    IF i > Len(rows) THEN [outcome |-> "ok", results |-> results]
    ELSE IF rows[i].s.context = NoneText
         THEN [outcome |-> "AttributeError", results |-> <<>>]
         ELSE LET source == Encode(rows[i].s.text)
                  result == [source |-> source,
                             target |-> Encode(rows[i].t.text),
                             context |-> Encode(rows[i].s.context),
                             quality |-> similarity(unit_source, source, min_similarity)]
              IN  ScanRows(rows, i + 1, unit_source, min_similarity,
                           IF Qualifies(result.quality, min_similarity)
                           THEN Append(results, result) ELSE results)

\* insertion of r into a list sorted by quality, descending, after its equals
RECURSIVE InsertDesc(_, _)
InsertDesc(sorted, r) ==
    IF sorted = <<>> THEN <<r>>
    ELSE IF Head(sorted).quality >= r.quality THEN <<Head(sorted)>> \o InsertDesc(Tail(sorted), r)
    ELSE <<r>> \o sorted

\* the results left in the order of the cursor
Unsorted(results) == results

\* results.sort(key=quality, reverse=True): a stable sort
RECURSIVE SortByQuality(_)
SortByQuality(results) ==
    IF results = <<>> THEN <<>>
    ELSE InsertDesc(SortByQuality(SubSeq(results, 1, Len(results) - 1)),
                    results[Len(results)])

\* the results, all of them
Untruncated(results, max_candidates) == results

\* results[:max_candidates]
Truncate(results, max_candidates) == SubSeq(results, 1, Min(max_candidates, Len(results)))

\* translate_unit cutting the results before it sorts them
TruncateFirst(cfg, unit_source, rows) ==
    LET scan == ScanRows(rows, 1, Encode(unit_source), cfg.min_similarity, <<>>)
    IN  IF scan.outcome # "ok" THEN scan
        ELSE [outcome |-> "ok",
              results |-> SortByQuality(Truncate(scan.results, cfg.max_candidates))]

\* translate_unit of an object with configuration cfg on the database db,
\* the cursor yielding the rows in the order `rows`
TranslateUnitCall(cfg, unit_source, rows) ==
    LET scan == ScanRows(rows, 1, Encode(unit_source), cfg.min_similarity, <<>>)
    IN  IF scan.outcome # "ok" THEN scan
        ELSE [outcome |-> "ok",
              results |-> Truncate(SortByQuality(scan.results), cfg.max_candidates)]

\* the rows translate_unit scores for a query
Candidates(cfg, db, unit_source, source_langs, target_langs) ==
    JoinedRows(db, BoundLangs(source_langs), BoundLangs(target_langs),
               min_levenshtein_length(Len(Encode(unit_source)), cfg.min_similarity),
               max_levenshtein_length(Len(Encode(unit_source)), cfg.min_similarity,
                                      cfg.max_length))

-----------------------------------------------------------------------------
(* The operations                                                          *)

NoResult == <<>>

\* the last call: the operation, how it ended ("ok" or the exception raised)
\* and what it returned
Res(op, outcome, results) == [op |-> op, outcome |-> outcome, results |-> results]

\* no connection: a db_file that is no key of _tm_dbs
NoHandle == 0

\* dbapi2.connect: a connection object that is none of those in use
connect(used) == CHOOSE h \in 1..(Cardinality(used) + 1) : h \notin used

\* the registry connecting to the file at every construction
AlwaysConnect(registry, db_file, handle) == [registry EXCEPT ![db_file] = handle]

\* the registry after __init__ has looked up db_file: a connection is made
\* and kept under db_file only if the registry has none for it
Register(registry, db_file, handle) ==
    IF registry[db_file] # NoHandle THEN registry
    ELSE [registry EXCEPT ![db_file] = handle]

Unmade == [made |-> FALSE, db_file |-> "f1", connection |-> NoHandle,
           max_candidates |-> DefaultMaxCandidates,
           min_similarity |-> DefaultMinSimilarity, max_length |-> DefaultMaxLength]

\* room left under the bound for n more rows
Room(f, n) == conn[f].cur.seq_s + n <= MaxSid /\ conn[f].cur.seq_t + n <= MaxSid

\* The call log, kept by the specifications that observe who called: the
\* caller of the last call, whether the call was one that commits, the
\* objects whose rows were pending on the connection of f1 when it began
\* (before) and those whose rows are pending now (writers).
NoCall == [obj |-> "t1", commit |-> FALSE, before |-> {}, writers |-> {}]

Log(o, commit) ==
    hist' = [obj |-> o, commit |-> commit, before |-> hist.writers,
             writers |-> IF ~conn'["f1"].intx THEN {}
                         ELSE IF conn'["f1"].cur # conn["f1"].cur
                              THEN hist.writers \cup {o}
                              ELSE hist.writers]

\* TMDB(db_file, max_candidates, min_similarity, max_length)
TMDB(o, db_file, max_candidates, min_similarity, max_length) ==
    /\ ~objs[o].made
    /\ LET c0 == IF tm_dbs[db_file] # NoHandle THEN conn[db_file]
                 ELSE [cur |-> disk[db_file], intx |-> FALSE]
           r  == InitDatabaseCall(disk[db_file], c0)
           used == {tm_dbs[f] : f \in DbFiles} \cup {objs[p].connection : p \in Objs}
       IN  /\ tm_dbs' = Register(tm_dbs, db_file, connect(used))
           /\ disk' = [disk EXCEPT ![db_file] = r.disk]
           /\ conn' = [conn EXCEPT ![db_file] = r.conn]
    /\ objs' = [objs EXCEPT ![o] = [made |-> TRUE, db_file |-> db_file,
                                    connection |-> tm_dbs'[db_file],
                                    max_candidates |-> max_candidates,
                                    min_similarity |-> min_similarity,
                                    max_length |-> max_length]]
    /\ res' = Res("TMDB", "ok", NoResult)

init_database(o) ==
    /\ objs[o].made
    /\ LET f == objs[o].db_file
           r == InitDatabaseCall(disk[f], conn[f])
       IN  /\ disk' = [disk EXCEPT ![f] = r.disk]
           /\ conn' = [conn EXCEPT ![f] = r.conn]
    /\ res' = Res("init_database", "ok", NoResult)
    /\ UNCHANGED <<tm_dbs, objs>>

add_unit(o, unit, source_lang, target_lang, commit) ==
    /\ objs[o].made
    /\ Room(objs[o].db_file, 1)
    /\ LET f == objs[o].db_file
           r == AddUnitCall(disk[f], conn[f], unit, source_lang, target_lang, commit)
       IN  /\ disk' = [disk EXCEPT ![f] = r.disk]
           /\ conn' = [conn EXCEPT ![f] = r.conn]
           /\ res' = Res("add_unit", r.outcome, NoResult)
    /\ UNCHANGED <<tm_dbs, objs>>

add_store(o, store, source_lang, target_lang, commit) ==
    /\ objs[o].made
    /\ Room(objs[o].db_file, Len(store))
    /\ LET f == objs[o].db_file
           r == AddStoreCall(disk[f], conn[f], store, source_lang, target_lang, commit)
       IN  /\ disk' = [disk EXCEPT ![f] = r.disk]
           /\ conn' = [conn EXCEPT ![f] = r.conn]
           /\ res' = Res("add_store", r.outcome, NoResult)
    /\ UNCHANGED <<tm_dbs, objs>>

\* translate_unit on a cursor that commits before it selects
CommitsFirst(o, unit_source, source_langs, target_langs) ==
    /\ objs[o].made
    /\ LET cfg == objs[o]
           f   == cfg.db_file
           k   == Commit(disk[f], conn[f])
       IN  /\ disk' = [disk EXCEPT ![f] = k.disk]
           /\ conn' = [conn EXCEPT ![f] = k.conn]
           /\ IF cfg.min_similarity = 0
              THEN res' = Res("translate_unit", "ZeroDivisionError", NoResult)
              ELSE \E rows \in Orders(Candidates(cfg, k.conn.cur, unit_source,
                                                 source_langs, target_langs)) :
                     LET r == TranslateUnitCall(cfg, unit_source, rows)
                     IN  res' = Res("translate_unit", r.outcome, r.results)
    /\ UNCHANGED <<tm_dbs, objs>>

translate_unit(o, unit_source, source_langs, target_langs) ==
    /\ objs[o].made
    /\ LET cfg == objs[o]
           db  == conn[cfg.db_file].cur
       IN  IF cfg.min_similarity = 0
           THEN res' = Res("translate_unit", "ZeroDivisionError", NoResult)
           ELSE \E rows \in Orders(Candidates(cfg, db, unit_source, source_langs,
                                              target_langs)) :
                  LET r == TranslateUnitCall(cfg, unit_source, rows)
                  IN  res' = Res("translate_unit", r.outcome, r.results)
    /\ UNCHANGED <<tm_dbs, disk, conn, objs>>

Init ==
    /\ tm_dbs = [f \in DbFiles |-> NoHandle]
    /\ disk = [f \in DbFiles |-> EmptyDb]
    /\ conn = [f \in DbFiles |-> [cur |-> EmptyDb, intx |-> FALSE]]
    /\ objs = [o \in Objs |-> Unmade]
    /\ res = Res("none", "ok", NoResult)
    /\ hist = NoCall

Next ==
    \/ \E o \in Objs :
          /\ TMDB(o, "f1", DefaultMaxCandidates, DefaultMinSimilarity, DefaultMaxLength)
          /\ UNCHANGED hist
    \/ \E o \in Objs : init_database(o) /\ UNCHANGED hist
    \/ \E o \in Objs, u \in Units, sl \in SourceLangArgs, tl \in TargetLangArgs,
          commit \in BOOLEAN : add_unit(o, u, sl, tl, commit) /\ UNCHANGED hist
    \/ \E o \in Objs, s \in Stores, sl \in SourceLangArgs, commit \in BOOLEAN :
          add_store(o, s, sl, "fr", commit) /\ UNCHANGED hist

Spec == Init /\ [][Next]_vars

-----------------------------------------------------------------------------
(* The registry: objects constructed on either database file              *)

\* the unit the registry's objects store
RegistryUnits == UnitsOver({StoreText}, TargetTexts, {<<"c">>}, {"en"}, {"fr"}, {TRUE})

NextRegistry ==
    \/ \E o \in Objs, f \in DbFiles :
          /\ TMDB(o, f, DefaultMaxCandidates, DefaultMinSimilarity, DefaultMaxLength)
          /\ UNCHANGED hist
    \/ \E o \in Objs : init_database(o) /\ UNCHANGED hist
    \/ \E o \in Objs, u \in RegistryUnits, commit \in BOOLEAN :
          add_unit(o, u, None, None, commit) /\ UNCHANGED hist

SpecRegistry == Init /\ [][NextRegistry]_vars

-----------------------------------------------------------------------------
(* The shared connection: two objects on one file, every call logged       *)

\* the units the two objects add: with or without a target, the source
\* language declared or left to the argument
SharedUnits == UnitsOver({StoreText}, TargetTexts \cup {NoneText}, {<<"c">>},
                         {"en", None}, {"fr"}, {TRUE})

\* the documents the two objects add: of the units that add_store skips,
\* those that declare their source language
SharedStoreUnits ==
    {u \in StoreUnits : (u.translatable /\ u.translated) \/ u.sourcelanguage = "en"}
SharedStores ==
    {<<u>> : u \in SharedStoreUnits} \cup {<<u, v>> : u, v \in SharedStoreUnits}

NextShared ==
    \/ \E o \in Objs :
          /\ TMDB(o, "f1", DefaultMaxCandidates, DefaultMinSimilarity, DefaultMaxLength)
          /\ Log(o, TRUE)
    \/ \E o \in Objs : init_database(o) /\ Log(o, TRUE)
    \/ \E o \in Objs, u \in SharedUnits, commit \in BOOLEAN :
          add_unit(o, u, "de", None, commit) /\ Log(o, commit)
    \/ \E o \in Objs, s \in SharedStores, sl \in SourceLangArgs, commit \in BOOLEAN :
          add_store(o, s, sl, "fr", commit) /\ Log(o, commit)
    \/ \E o \in Objs :
          translate_unit(o, StoreText, Tag("en"), Tag("fr")) /\ Log(o, FALSE)

SpecShared == Init /\ [][NextShared]_vars

-----------------------------------------------------------------------------
(* The match engine: one object, built with a configuration, filled by     *)
(* add_unit and queried by translate_unit                                  *)

\* source texts: the prefixes of Base up to MaxLen characters, and one text
\* with a non-ASCII character
Texts == {SubSeq(Base, 1, n) : n \in 1..MaxLen} \cup {<<NonAscii, "b">>}

MatchUnits == UnitsOver(Texts, TargetTexts, Contexts, {"en"}, {"fr"}, {TRUE})

MaxCandidatesSet == {0, 1, DefaultMaxCandidates}
MinSimilarities == {0, 50, DefaultMinSimilarity}
MaxLengths == {2, DefaultMaxLength}

\* the language arguments of the queries
LangArgs ==
    {<<Tag("en"), Tag("fr")>>, <<List(<<"en">>), List(<<"fr">>)>>,
     <<List(<<"en", "de">>), Tag("fr")>>, <<Tag("en"), List(<<"fr", "es">>)>>,
     <<Tag("de"), Tag("fr")>>}

InitMatch ==
    /\ tm_dbs = [f \in DbFiles |-> IF f = "f1" THEN 1 ELSE NoHandle]
    /\ disk = [f \in DbFiles |-> IF f = "f1" THEN [EmptyDb EXCEPT !.schema = TRUE]
                                  ELSE EmptyDb]
    /\ conn = [f \in DbFiles |-> [cur |-> disk[f], intx |-> FALSE]]
    /\ \E mc \in MaxCandidatesSet, ms \in MinSimilarities, ml \in MaxLengths :
          objs = [o \in Objs |-> IF o = "t1"
                                 THEN [made |-> TRUE, db_file |-> "f1",
                                       connection |-> 1,
                                       max_candidates |-> mc, min_similarity |-> ms,
                                       max_length |-> ml]
                                 ELSE Unmade]
    /\ res = Res("TMDB", "ok", NoResult)
    /\ hist = NoCall

NextMatch ==
    \/ \E u \in MatchUnits : add_unit("t1", u, None, None, TRUE) /\ UNCHANGED hist
    \/ \E q \in Texts, a \in LangArgs :
          translate_unit("t1", q, a[1], a[2]) /\ UNCHANGED hist

SpecMatch == InitMatch /\ [][NextMatch]_vars

-----------------------------------------------------------------------------
(* Properties of the store (under Spec)                                    *)

\* what the connection of the database file f1 sees, and the file's content
Cur == conn["f1"].cur
Committed == disk["f1"]

SameTriple(r1, r2) == r1.text = r2.text /\ r1.context = r2.context /\ r1.lang = r2.lang

\* C1: no two Source rows share the same (text, context, language) triple,
\* also after add_unit was called twice with the same triple, the context
\* being a string or None.
C1_UniqueSources ==
    \A r1, r2 \in Cur.sources : SameTriple(r1, r2) => r1 = r2

\* C2: when add_store(..., commit=True) raises partway through the document,
\* no row of the document remains on the connection, committed or pending.
C2_BatchAtomicity ==
    [][\A o \in Objs, s \in Stores, sl \in SourceLangArgs :
          (add_store(o, s, sl, "fr", TRUE) /\ res'.outcome # "ok")
          => /\ conn'["f1"].cur.sources \subseteq Cur.sources
             /\ conn'["f1"].cur.targets \subseteq Cur.targets
             /\ disk'["f1"] = Committed]_vars

\* the resolved language is undefined: neither declared by the unit nor given
Undefined(declared, argument) == declared = None /\ argument = None

\* C5: add_unit with an undefined source or target language raises
\* LanguageError and writes nothing: the rows the connection sees, the file's
\* content and the open transaction are as before, whatever commit is.
\* Stated of every step that ends an add_unit call: it raised LanguageError
\* and wrote nothing, or it is no call with an undefined language.
C5_MissingLanguage ==
    [][res'.op = "add_unit" =>
        \/ /\ res'.outcome = "LanguageError"
           /\ conn' = conn
           /\ disk' = disk
        \/ ~ \E u \in Units, sl \in SourceLangArgs, tl \in TargetLangArgs :
                /\ Undefined(u.sourcelanguage, sl) \/ Undefined(u.targetlanguage, tl)
                /\ \E o \in Objs, commit \in BOOLEAN : add_unit(o, u, sl, tl, commit)]_vars

\* C5 witness: a LanguageError was raised while rows were pending
C5_Witness ==
    /\ res.op = "add_unit" /\ res.outcome = "LanguageError"
    /\ conn["f1"].intx
    /\ Cur.sources # Committed.sources

\* the Target rows add_unit's insertion conflicts with: those that have the
\* unit's target text, the resolved target language and the id of the Source
\* row add_unit reuses (a row with the unit's triple; a unit without context
\* always gets a new Source row, whose id no Target has yet)
IdenticalTargets(u, sl, tl) ==
    {t \in Cur.targets :
        /\ u.context # NoneText
        /\ t.text = u.target
        /\ t.lang = (IF u.targetlanguage # None THEN u.targetlanguage ELSE tl)
        /\ \E s \in Cur.sources :
              /\ s.sid = t.sid
              /\ s.text = u.source /\ s.context = u.context
              /\ s.lang = (IF u.sourcelanguage # None THEN u.sourcelanguage ELSE sl)}

C6_UniqueTargets ==
    \A t1, t2 \in Cur.targets :
        (t1.sid = t2.sid /\ t1.text = t2.text /\ t1.lang = t2.lang) => t1 = t2

\* C6: no two Target rows share the same (Source id, text, language), and an
\* add_unit call whose Target is identical to an existing row returns
\* normally without adding a Target row.
C6_IdempotentTarget ==
    /\ []C6_UniqueTargets
    /\ [][res'.op = "add_unit" =>
            \A u \in Units, sl \in SourceLangArgs, tl \in TargetLangArgs :
              IdenticalTargets(u, sl, tl) # {}
              => \A o \in Objs, commit \in BOOLEAN :
                    add_unit(o, u, sl, tl, commit)
                    => /\ res'.outcome = "ok"
                       /\ conn'["f1"].cur.targets = Cur.targets]_vars

\* C6 witness: add_unit(commit=False) returned normally with both insertions
\* refused by the unique indices: a transaction is open and nothing is pending
C6_Witness ==
    /\ res.op = "add_unit" /\ res.outcome = "ok"
    /\ conn["f1"].intx
    /\ Cur = Committed
    /\ Cur.targets # {}

-----------------------------------------------------------------------------
(* Properties of the match engine (under SpecMatch)                        *)

Cfg == objs["t1"]

\* every joined Source/Target pair the connection sees
AllPairs == {[s |-> s, t |-> t] : s \in Cur.sources, t \in Cur.targets}
Pairs == {p \in AllPairs : p.s.sid = p.t.sid}

\* the set of tags of a language argument
TagsOf(arg) == {arg.tags[i] : i \in 1..Len(arg.tags)}

\* the records of a result
Records(results) == {results[i] : i \in 1..Len(results)}

\* the result is one translate_unit can return for the query in this state
IsResultOf(r, q, a) ==
    /\ r.op = "translate_unit"
    /\ Cfg.min_similarity > 0
    /\ \E rows \in Orders(Candidates(Cfg, Cur, q, a[1], a[2])) :
          LET call == TranslateUnitCall(Cfg, q, rows)
          IN  r.outcome = call.outcome /\ r.results = call.results

\* C3: a stored pair (s, t) in languages sl, tl is returned by
\* translate_unit(s, [sl], [tl]) with quality 100, when max_candidates >= 1
\* and no other pair competes for the slot.
C3_RoundTrip ==
    [][\A q \in Texts :
          (/\ translate_unit("t1", q, List(<<"en">>), List(<<"fr">>))
           /\ Cfg.max_candidates >= 1
           /\ Cardinality(Pairs) <= Cfg.max_candidates)
          => \A p \in Pairs :
                (p.s.text = q /\ p.s.lang = "en" /\ p.t.lang = "fr")
                => /\ res'.outcome = "ok"
                   /\ \E r \in Records(res'.results) :
                         /\ r.source = Encode(q)
                         /\ r.target = Encode(p.t.text)
                         /\ r.quality = 100]_vars

\* the length window of a query (max_levenshtein_length divides by
\* min_similarity)
InWindow(length, q) ==
    /\ Cfg.min_similarity > 0
    /\ length >= min_levenshtein_length(Len(Encode(q)), Cfg.min_similarity)
    /\ length <= max_levenshtein_length(Len(Encode(q)), Cfg.min_similarity, Cfg.max_length)

\* C4: the pairs translate_unit scores are those whose source language is a
\* member of source_langs and whose target language is a member of
\* target_langs (and whose source length is in the window).
C4_LanguageMembership ==
    [][\A q \in Texts, a \in LangArgs :
          (translate_unit("t1", q, a[1], a[2]) /\ res'.outcome = "ok")
          => Candidates(Cfg, Cur, q, a[1], a[2])
               = {p \in Pairs : /\ p.s.lang \in TagsOf(a[1])
                                /\ p.t.lang \in TagsOf(a[2])
                                /\ InWindow(p.s.length, q)}]_vars

\* C7: translate_unit returns at most max_candidates records.
C7_AtMostMaxCandidates ==
    (res.op = "translate_unit" /\ res.outcome = "ok")
    => Len(res.results) <= Cfg.max_candidates

\* the records that qualify for a query, before the truncation
Qualifying(q, a) ==
    {p \in Candidates(Cfg, Cur, q, a[1], a[2]) :
        similarity(Encode(q), Encode(p.s.text), Cfg.min_similarity) >= Cfg.min_similarity}

\* C7 witness: more rows qualified than max_candidates, and max_candidates
\* records were returned
C7_Witness ==
    \E q \in Texts, a \in LangArgs :
       /\ res.outcome = "ok"
       /\ Cfg.max_candidates >= 1
       /\ IsResultOf(res, q, a)
       /\ Cardinality(Qualifying(q, a)) > Cfg.max_candidates
       /\ Len(res.results) = Cfg.max_candidates

\* C8: every returned record has min_similarity <= quality <= 100.
C8_QualityInRange ==
    (res.op = "translate_unit" /\ res.outcome = "ok")
    => \A r \in Records(res.results) :
          r.quality >= Cfg.min_similarity /\ r.quality <= 100

\* C8 witness: a row in the window scored below min_similarity and was left
\* out, another was returned
C8_Witness ==
    \E q \in Texts, a \in LangArgs :
       /\ res.outcome = "ok"
       /\ IsResultOf(res, q, a)
       /\ Candidates(Cfg, Cur, q, a[1], a[2]) \ Qualifying(q, a) # {}
       /\ Len(res.results) >= 1

\* C9: the result is sorted by quality, non-increasing.
C9_SortedByQuality ==
    (res.op = "translate_unit" /\ res.outcome = "ok")
    => \A i, j \in 1..Len(res.results) :
          i < j => res.results[i].quality >= res.results[j].quality

\* C9 witness: two records of different quality were returned
C9_Witness ==
    /\ res.op = "translate_unit" /\ res.outcome = "ok"
    /\ Len(res.results) = 2
    /\ res.results[1].quality > res.results[2].quality

\* C10: every stored pair in the requested languages that scores at least
\* min_similarity against the query has its source length in the window.
C10_NoFalseNegatives ==
    [][\A q \in Texts, a \in LangArgs :
          translate_unit("t1", q, a[1], a[2])
          => \A p \in Pairs :
                (/\ p.s.lang = BoundLangs(a[1]) /\ p.t.lang = BoundLangs(a[2])
                 /\ similarity(Encode(q), Encode(p.s.text), Cfg.min_similarity)
                      >= Cfg.min_similarity)
                => InWindow(p.s.length, q)]_vars

\* C11: for every query and every min_similarity in 0..100, translate_unit
\* computes its length window without failing, and the window of a query of
\* length 10 at min_similarity 75 is [8, 13].
C11_WindowDefined ==
    /\ res.op = "translate_unit" => res.outcome # "ZeroDivisionError"
    /\ min_levenshtein_length(10, DefaultMinSimilarity) = 8
    /\ max_levenshtein_length(10, DefaultMinSimilarity, DefaultMaxLength) = 13

\* the contexts of the Source rows the connection sees, as translate_unit
\* would return them
StoredContexts ==
    {IF s.context = NoneText THEN NoneText ELSE Encode(s.context) : s \in Cur.sources}

Quality(q, p) == similarity(Encode(q), Encode(p.s.text), Cfg.min_similarity)

\* the record translate_unit makes of a pair
RecordOf(q, p) ==
    [source |-> Encode(p.s.text), target |-> Encode(p.t.text),
     context |-> Encode(p.s.context), quality |-> Quality(q, p)]

\* C20: the result holds the best matches: a qualifying row that is not
\* returned scores no higher than any returned record, and when no more than
\* max_candidates rows qualify all of them are returned, one record a pair.
C20_BestMatches ==
    \A q \in Texts, a \in LangArgs :
       (res.outcome = "ok" /\ IsResultOf(res, q, a))
       => /\ \A p \in Qualifying(q, a) :
                RecordOf(q, p) \notin Records(res.results)
                => \A r \in Records(res.results) : Quality(q, p) <= r.quality
          /\ Cardinality(Qualifying(q, a)) <= Cfg.max_candidates
             => /\ Len(res.results) = Cardinality(Qualifying(q, a))
                /\ Records(res.results) = {RecordOf(q, p) : p \in Qualifying(q, a)}

\* C20 witness: two rows qualified with different scores, one record was
\* asked for and the better one was returned
C20_Witness ==
    \E q \in Texts, a \in LangArgs :
       /\ res.outcome = "ok"
       /\ Cfg.max_candidates = 1
       /\ IsResultOf(res, q, a)
       /\ Cardinality(Qualifying(q, a)) = 2
       /\ \E p \in Qualifying(q, a) : Quality(q, p) < res.results[1].quality

-----------------------------------------------------------------------------
(* Failure, integrity and sharing (under Spec)                             *)

\* C12: an add_unit that fails after its Source insert (here on a unit with
\* no target text) leaves the rows the connection sees as they were before
\* the call, whether it was asked to commit or not.
C12_PreCallState ==
    [][(res'.op = "add_unit" /\ res'.outcome = "TypeError")
       => /\ conn'["f1"].cur.sources = Cur.sources
          /\ conn'["f1"].cur.targets = Cur.targets]_vars

\* every Target row of db references exactly one Source row of db
References(db) ==
    \A t \in db.targets : Cardinality({s \in db.sources : s.sid = t.sid}) = 1

\* C19: every Target the connection sees, and every committed one,
\* references exactly one Source row, and the Source of a Target that
\* add_unit inserts carries the unit's source text, context and resolved
\* source language.
C19_ReferentialIntegrity ==
    /\ [](References(Cur) /\ References(Committed))
    /\ [][(res'.op = "add_unit" /\ conn'["f1"].cur.targets # Cur.targets)
          => \A o \in Objs, u \in Units, sl \in SourceLangArgs,
                tl \in TargetLangArgs, commit \in BOOLEAN :
                add_unit(o, u, sl, tl, commit)
                => \A t \in conn'["f1"].cur.targets \ Cur.targets :
                      \E s \in conn'["f1"].cur.sources :
                         /\ s.sid = t.sid
                         /\ s.text = u.source
                         /\ s.context = u.context
                         /\ s.lang = ResolveLang(u.sourcelanguage, sl)]_vars

\* C19 witness: two Targets on two different Sources, after an add_unit
C19_Witness ==
    /\ res.op = "add_unit"
    /\ res.outcome = "ok"
    /\ \E t1 \in Cur.targets, t2 \in Cur.targets : t1.sid # t2.sid

\* C14: the objects constructed on the same db_file hold the same
\* connection, the one the registry keeps under db_file; objects on
\* different files hold different connections; and an entry of the registry,
\* once made, is never replaced or removed.
C14_Registry ==
    /\ [](\A o \in Objs, p \in Objs :
             (objs[o].made /\ objs[p].made)
             => /\ objs[o].connection = tm_dbs[objs[o].db_file]
                /\ objs[o].connection # NoHandle
                /\ (objs[o].db_file = objs[p].db_file)
                   <=> (objs[o].connection = objs[p].connection))
    /\ [][\A f \in DbFiles : tm_dbs[f] # NoHandle => tm_dbs'[f] = tm_dbs[f]]_vars

\* C14 witness: two objects on the same file
C14_Witness ==
    /\ objs["t1"].made /\ objs["t2"].made
    /\ objs["t1"].db_file = objs["t2"].db_file
    /\ objs["t1"].connection = objs["t2"].connection

-----------------------------------------------------------------------------
(* Properties of the shared connection (under SpecShared)                  *)

\* a step of init_database on a store that has its schema, called directly
\* or by the construction of an object
Reinitialized ==
    \/ res'.op = "init_database"
    \/ res'.op = "TMDB" /\ Cur.schema

\* C13 as stated: init_database on an initialized store changes neither the
\* schema nor the committed rows nor the pending rows.
C13_ChangesNothing ==
    [][Reinitialized => (disk' = disk /\ conn' = conn)]_vars

\* C13: init_database on an initialized store succeeds and leaves the schema
\* and the rows the connection sees as they were; it commits, so the rows
\* that were pending are committed rows afterwards and none is pending.
C13_Idempotent ==
    [][Reinitialized
       => /\ res'.outcome = "ok"
          /\ conn'["f1"].cur = Cur
          /\ disk'["f1"] = Cur
          /\ ~conn'["f1"].intx]_vars

\* C13 witness: init_database was called while rows were pending
C13_Witness ==
    /\ res.op = "init_database"
    /\ hist.before # {}
    /\ Committed.sources # {}

\* C15: translate_unit changes neither the committed rows nor the pending
\* rows nor whether a transaction is open.
C15_ReadOnly ==
    [][res'.op = "translate_unit" => (disk' = disk /\ conn' = conn)]_vars

\* C15 witness: a lookup returned a row that is still pending
C15_Witness ==
    /\ res.op = "translate_unit"
    /\ res.results # NoResult
    /\ conn["f1"].intx
    /\ Committed.targets = {}
    /\ hist.before # {}

Wanted(u) == u.translatable /\ u.translated

\* add_unit with commit=False on each of the units in turn, up to the first
\* that fails
RECURSIVE UnitByUnit(_, _, _, _, _)
UnitByUnit(d, c, units, source_lang, target_lang) ==
    IF units = <<>> THEN [disk |-> d, conn |-> c, outcome |-> "ok"]
    ELSE LET r == AddUnitCall(d, c, Head(units), source_lang, target_lang, FALSE)
         IN  IF r.outcome # "ok" THEN r
             ELSE UnitByUnit(r.disk, r.conn, Tail(units), source_lang, target_lang)

\* what the claim expects of add_store on the store
Expected(d, c, store, source_lang, target_lang, commit) ==
    LET e == UnitByUnit(d, c, SelectSeq(store, Wanted), source_lang, target_lang)
    IN  IF e.outcome = "ok" /\ commit
        THEN [disk |-> e.conn.cur, conn |-> [cur |-> e.conn.cur, intx |-> FALSE],
              outcome |-> "ok"]
        ELSE [disk |-> d, conn |-> e.conn, outcome |-> e.outcome]

\* C17: add_store does what add_unit with commit=False does on the units
\* that are translatable and translated, in document order, the other units
\* writing nothing and raising nothing; it commits nothing before the last
\* unit, commits once after it if commit is true and never if it is false.
C17_AddStore ==
    [][res'.op = "add_store"
       => LET step == [disk |-> disk'["f1"], conn |-> conn'["f1"],
                       outcome |-> res'.outcome]
          IN  \A s \in SharedStores, sl \in SourceLangArgs :
                 (/\ Room("f1", Len(s))
                  /\ step = AddStoreCall(disk["f1"], conn["f1"], s, sl, "fr",
                                         hist'.commit))
                 => step = Expected(disk["f1"], conn["f1"], s, sl, "fr",
                                    hist'.commit)]_vars

\* C17 witness: an add_store with commit=False wrote two units on an empty
\* store and nothing of them is committed
C17_Witness ==
    /\ res.op = "add_store"
    /\ res.outcome = "ok"
    /\ ~hist.commit
    /\ hist.before = {}
    /\ Committed.sources = {}
    /\ Cardinality(Cur.targets) = 2

\* C18: a commit through any object (add_unit or add_store asked to commit,
\* init_database, a construction) makes durable every row pending on the
\* connection, whoever inserted it, and the rollback of a failing add_unit
\* asked to commit discards every pending row, whoever inserted it.
C18_SharedTransaction ==
    [][/\ (\/ res'.op \in {"init_database", "TMDB"}
           \/ /\ res'.op \in {"add_unit", "add_store"}
              /\ res'.outcome = "ok"
              /\ hist'.commit)
          => /\ disk'["f1"] = conn'["f1"].cur
             /\ ~conn'["f1"].intx
             /\ Cur.sources \subseteq disk'["f1"].sources
             /\ Cur.targets \subseteq disk'["f1"].targets
       /\ (/\ res'.op = "add_unit"
           /\ res'.outcome \notin {"ok", "LanguageError"}
           /\ hist'.commit)
          => /\ disk'["f1"] = Committed
             /\ conn'["f1"] = [cur |-> Committed, intx |-> FALSE]]_vars

\* C18 witness: an add_unit of t2 committed while rows of t1 were pending
C18_Witness ==
    /\ res.op = "add_unit"
    /\ res.outcome = "ok"
    /\ hist.obj = "t2"
    /\ hist.commit
    /\ hist.before = {"t1"}
    /\ Cardinality(Committed.sources) = 2

====
